---- MODULE Spec2Model ----
(***************************************************************************)
(* A model of minor-planet-painter: the packed-epoch decoder, the Kepler   *)
(* solver (src/minor_planet_painter/common.py) and the catalogue reading,  *)
(* propagation and family classification of src/scripts/plot_sssb_xy.py.   *)
(*                                                                         *)
(* Text is a sequence of one-character strings.  Floating point numbers    *)
(* are modelled in exact fixed point: lengths and eccentricities in        *)
(* hundredths, angles in milliradians, instants as a day number plus       *)
(* seconds and microseconds of the day.                                    *)
(***************************************************************************)
EXTENDS Integers, Sequences, FiniteSets, TLC

VARIABLES
  epoch_code,   \* mpcepoch2jd: the argument
  result,       \* mpcepoch2jd: what the call returned or raised
  dpc           \* mpcepoch2jd: "call" before the call, "returned" after

decoderVars == <<epoch_code, result, dpc>>

VARIABLES
  kM,           \* solve_kepler_eq: the array M (milliradians)
  ke,           \* solve_kepler_eq: the array e (thousandths)
  kE,           \* solve_kepler_eq: the array E (milliradians)
  max_iter,     \* solve_kepler_eq: the iteration count
  kiter,        \* solve_kepler_eq: iterations of the loop done
  kpc           \* solve_kepler_eq: "entry", "loop" or "returned"

keplerVars == <<kM, ke, kE, max_iter, kiter, kpc>>

VARIABLES
  catalog,      \* the script: the lines of the catalogue file
  Nobj,         \* the script: args.Nobj, <<>> when the option is absent
  target,       \* the script: the fields of args.epoch
  pc,           \* the script: the statement about to run
  fpos,         \* the script: lines of the file consumed so far
  jd_now,       \* the script: the Julian Date of the target epoch
  epoch, M, omega, Omega, inc, e, a, n,   \* the script: the element lists
  decoded,      \* the script: the list the comprehension of line 95 builds
  didx,         \* the script: elements of epoch the comprehension has taken
  epoch_jd, M_t, E, r, x, y,              \* the script: the propagated state
  mask,         \* the script: mask_nea, mask_mba, mask_hilda, mask_trojan, mask_tno
  colors,       \* the script: the colour of every body
  N,            \* the script: N_all, N_nea, ..., N_others
  assigned,     \* the script: the result names bound so far
  failure       \* the script: the exception that ended it, if any

elementVars == <<epoch, M, omega, Omega, inc, e, a, n>>

stateVars == <<decoded, didx, epoch_jd, M_t, E, r, x, y>>

classVars == <<mask, colors, N>>

scriptVars ==
  <<catalog, Nobj, target, pc, fpos, jd_now, elementVars, stateVars,
    classVars, assigned, failure>>

vars == <<decoderVars, keplerVars, scriptVars>>

None == "None"

---------------------------------------------------------------------------
(* Characters: ord(), str.upper(), str.strip() on printable ASCII.         *)

\* The printable ASCII characters in code-point order, from 32 (space); the
\* grave accent, which a string cannot hold, is spelled out.
AsciiTable == <<
   " ", "!", "\"", "#", "$", "%", "&", "'", "(", ")", "*", "+", ",", "-", ".", "/",
   "0", "1", "2", "3", "4", "5", "6", "7", "8", "9", ":", ";", "<", "=", ">", "?",
   "@", "A", "B", "C", "D", "E", "F", "G", "H", "I", "J", "K", "L", "M", "N", "O",
   "P", "Q", "R", "S", "T", "U", "V", "W", "X", "Y", "Z", "[", "\\", "]", "^", "_",
   "<grave>", "a", "b", "c", "d", "e", "f", "g", "h", "i", "j", "k", "l", "m", "n", "o",
   "p", "q", "r", "s", "t", "u", "v", "w", "x", "y", "z", "{", "|", "}", "~"
  >>

\* The code point of every character: the table starts at code point 32.
CodePoint ==
  [ch \in {AsciiTable[k] : k \in 1..Len(AsciiTable)} |->
     31 + (CHOOSE k \in 1..Len(AsciiTable) : AsciiTable[k] = ch)]

\* ord()
Ord(ch) == CodePoint[ch]

\* chr()
Chr(code) == AsciiTable[code - 31]

IsLower(ch) == Ord("a") <= Ord(ch) /\ Ord(ch) <= Ord("z")

IsDigit(ch) == Ord("0") <= Ord(ch) /\ Ord(ch) <= Ord("9")

\* str.upper() of one character.
UpperChar(ch) == IF IsLower(ch) THEN Chr(Ord(ch) - Ord("a") + Ord("A")) ELSE ch

\* str.upper()
Upper(s) == [k \in 1..Len(s) |-> UpperChar(s[k])]

\* str.lower()
Lower(s) ==
  [k \in 1..Len(s) |->
     IF Ord("A") <= Ord(s[k]) /\ Ord(s[k]) <= Ord("Z")
     THEN Chr(Ord(s[k]) - Ord("A") + Ord("a")) ELSE s[k]]

IsSpace(ch) == ch = " "

\* str.strip(): leading and trailing whitespace removed.
Strip(s) ==
  LET keep == {k \in 1..Len(s) : ~IsSpace(s[k])}
  IN  IF keep = {} THEN <<>>
      ELSE LET lo == CHOOSE k \in keep : \A j \in keep : k <= j
               hi == CHOOSE k \in keep : \A j \in keep : k >= j
           IN  SubSeq(s, lo, hi)

\* The slice s[from:to] of Python (0-based, clipped to the text).
Slice(s, from, to) == SubSeq(s, from + 1, IF to < Len(s) THEN to ELSE Len(s))

RECURSIVE Pow10(_)
Pow10(k) == IF k <= 0 THEN 1 ELSE 10 * Pow10(k - 1)

---------------------------------------------------------------------------
(* float() and int() of Python on text, as far as the decoder uses them.   *)

\* digit (["_"] digit)*
IsDigitPart(t) ==
  /\ Len(t) > 0
  /\ IsDigit(t[1])
  /\ IsDigit(t[Len(t)])
  /\ \A k \in 1..Len(t) :
       \/ IsDigit(t[k])
       \/ t[k] = "_" /\ IsDigit(t[k - 1]) /\ IsDigit(t[k + 1])

\* digitpart ["." [digitpart]] | "." digitpart
IsMantissa(t) ==
  \/ IsDigitPart(t)
  \/ \E p \in 1..Len(t) :
       LET left  == SubSeq(t, 1, p - 1)
           right == SubSeq(t, p + 1, Len(t))
       IN  /\ t[p] = "."
           /\ left = <<>> \/ IsDigitPart(left)
           /\ right = <<>> \/ IsDigitPart(right)
           /\ ~(left = <<>> /\ right = <<>>)

HasSign(t) == Len(t) > 0 /\ t[1] \in {"+", "-"}

Unsigned(t) == IF HasSign(t) THEN Tail(t) ELSE t

\* mantissa [("e" | "E") ["+" | "-"] digitpart]
IsDecimal(t) ==
  \/ IsMantissa(t)
  \/ \E p \in 1..Len(t) :
       /\ t[p] \in {"e", "E"}
       /\ IsMantissa(SubSeq(t, 1, p - 1))
       /\ IsDigitPart(Unsigned(SubSeq(t, p + 1, Len(t))))

IsInfNan(t) ==
  Lower(t) \in {<<"i", "n", "f">>, <<"n", "a", "n">>,
                <<"i", "n", "f", "i", "n", "i", "t", "y">>}

\* Whether float(s) succeeds (it raises ValueError otherwise).
IsFloat(s) ==
  LET t == Unsigned(Strip(s))
  IN  IsInfNan(t) \/ IsDecimal(t)

\* The digits of t, underscores dropped, as a number.
RECURSIVE DigitsValue(_)
DigitsValue(t) ==
  IF t = <<>> THEN 0
  ELSE LET front == SubSeq(t, 1, Len(t) - 1)
           last  == t[Len(t)]
       IN  IF last = "_" THEN DigitsValue(front)
           ELSE 10 * DigitsValue(front) + (Ord(last) - Ord("0"))

CountDigits(t) == Cardinality({k \in 1..Len(t) : IsDigit(t[k])})

\* num * 10^-scale with the trailing zeros of num removed.
RECURSIVE Normalise(_, _)
Normalise(num, scale) ==
  IF num = 0 THEN [num |-> 0, scale |-> 0]
  ELSE IF num % 10 = 0 THEN Normalise(num \div 10, scale - 1)
  ELSE [num |-> num, scale |-> scale]

\* The value float(s) returns, for a text IsFloat accepts: a decimal is
\* sign * num * 10^-scale (exact; the text is short enough for a double).
FloatValue(s) ==
  LET t    == Strip(s)
      neg  == HasSign(t) /\ t[1] = "-"
      u    == Unsigned(t)
      epos == {p \in 1..Len(u) : u[p] \in {"e", "E"}}
      mant == IF epos = {} THEN u
              ELSE SubSeq(u, 1, (CHOOSE p \in epos : TRUE) - 1)
      expo == IF epos = {} THEN <<>>
              ELSE SubSeq(u, (CHOOSE p \in epos : TRUE) + 1, Len(u))
      dots == {p \in 1..Len(mant) : mant[p] = "."}
      ipart == IF dots = {} THEN mant
               ELSE SubSeq(mant, 1, (CHOOSE p \in dots : TRUE) - 1)
      fpart == IF dots = {} THEN <<>>
               ELSE SubSeq(mant, (CHOOSE p \in dots : TRUE) + 1, Len(mant))
      ev   == IF HasSign(expo) /\ expo[1] = "-"
              THEN 0 - DigitsValue(Unsigned(expo))
              ELSE DigitsValue(Unsigned(expo))
      nv   == Normalise(DigitsValue(ipart \o fpart), CountDigits(fpart) - ev)
  IN  IF IsInfNan(u)
      THEN [kind |-> IF Len(u) = 3 /\ Lower(u)[1] = "n" THEN "nan" ELSE "inf",
            neg |-> neg, num |-> 0, scale |-> 0]
      ELSE [kind |-> "finite", neg |-> neg /\ nv.num # 0,
            num |-> nv.num, scale |-> nv.scale]

\* Whether int(s) succeeds: whitespace, a sign, then a digit part.
IsInt(s) == IsDigitPart(Unsigned(Strip(s)))

\* The value int(s) returns, for a text IsInt accepts.
IntValue(s) ==
  LET t == Strip(s)
  IN  IF HasSign(t) /\ t[1] = "-" THEN 0 - DigitsValue(Unsigned(t))
      ELSE DigitsValue(Unsigned(t))

---------------------------------------------------------------------------
(* Calendar arithmetic: datetime, timedelta, isoformat and utc2jd.         *)

\* datetime.date ordinal of 1 January of a year (days since 0001-01-01 = 1).
DaysBeforeYear(yr) ==
  (yr - 1) * 365 + (yr - 1) \div 4 - (yr - 1) \div 100 + (yr - 1) \div 400

DaysInMonth == <<31, 28, 31, 30, 31, 30, 31, 31, 30, 31, 30, 31>>

DaysBeforeMonth == <<0, 31, 59, 90, 120, 151, 181, 212, 243, 273, 304, 334>>

\* The calendar date of an ordinal (_ord2ymd of datetime).
Ord2Ymd(ordinal) ==
  LET n0   == ordinal - 1
      n400 == n0 \div 146097
      r400 == n0 % 146097
      n100 == r400 \div 36524
      r100 == r400 % 36524
      n4   == r100 \div 1461
      r4   == r100 % 1461
      n1   == r4 \div 365
      nd   == r4 % 365
      year == n400 * 400 + 1 + n100 * 100 + n4 * 4 + n1
      leap == n1 = 3 /\ (n4 # 24 \/ n100 = 3)
      m0   == (nd + 50) \div 32
      p0   == DaysBeforeMonth[m0] + (IF m0 > 2 /\ leap THEN 1 ELSE 0)
      month == IF p0 > nd THEN m0 - 1 ELSE m0
      preceding ==
        IF p0 > nd
        THEN p0 - (DaysInMonth[month] + (IF month = 2 /\ leap THEN 1 ELSE 0))
        ELSE p0
  IN  IF n1 = 4 \/ n100 = 4
      THEN [year |-> year - 1, month |-> 12, day |-> 31]
      ELSE [year |-> year, month |-> month, day |-> nd - preceding + 1]

\* timedelta(days = whole + frac): frac is a FloatValue of at most three
\* decimals, so that the seconds and microseconds are exact.
TimeDelta(whole, frac) ==
  LET p     == Pow10(frac.scale)
      extra == IF frac.scale <= 0 THEN frac.num * Pow10(0 - frac.scale)
               ELSE frac.num \div p
      rest  == IF frac.scale <= 0 THEN 0 ELSE frac.num % p
  IN  [days |-> whole + extra,
       sec  |-> (rest * 86400) \div p,
       us   |-> (((rest * 86400) % p) * 1000000) \div p]

\* datetime(year, 1, 1) + timedelta
DatePlus(year, delta) ==
  [ord |-> DaysBeforeYear(year) + 1 + delta.days,
   sec |-> delta.sec, us |-> delta.us]

\* datetime.isoformat(): the fields of YYYY-MM-DDTHH:MM:SS[.ffffff].
IsoFormat(date) ==
  LET ymd == Ord2Ymd(date.ord)
  IN  [year |-> ymd.year, month |-> ymd.month, day |-> ymd.day,
       hour |-> date.sec \div 3600, minute |-> (date.sec % 3600) \div 60,
       second |-> date.sec % 60, us |-> date.us]

\* The Modified Julian Date of a calendar day (ERFA cal2jd).
Cal2Mjd(iy, im, id) ==
  LET my    == IF im <= 2 THEN 0 - 1 ELSE 0
      iypmy == iy + my
  IN  (1461 * (iypmy + 4800)) \div 4 + (367 * (im - 2 - 12 * my)) \div 12
        - (3 * ((iypmy + 4900) \div 100)) \div 4 + id - 2432076

\* utc2jd: the Julian Date of an ISO time, as the day number of the
\* preceding midnight (JD = day + 0.5) and the time of that day.
utc2jd(iso) ==
  [day |-> 2400000 + Cal2Mjd(iso.year, iso.month, iso.day),
   sec |-> iso.hour * 3600 + iso.minute * 60 + iso.second,
   us  |-> iso.us]

---------------------------------------------------------------------------
(* base36_to_int and mpcepoch2jd.                                          *)

IsBase36Char(ch) ==
  \/ Ord("0") <= Ord(ch) /\ Ord(ch) <= Ord("9")
  \/ Ord("A") <= Ord(ch) /\ Ord(ch) <= Ord("Z")

Base36Digit(ch) ==
  IF IsDigit(ch) THEN Ord(ch) - Ord("0") ELSE Ord(ch) - Ord("A") + 10

\* A fold that takes the first character as the least significant digit.
RECURSIVE Base36FoldLsbFirst(_)
Base36FoldLsbFirst(u) ==
  IF u = <<>> THEN 0
  ELSE Base36FoldLsbFirst(Tail(u)) * 36 + Base36Digit(Head(u))

\* value = value*36 + digit over the upper-cased characters, left to right.
RECURSIVE Base36Fold(_)
Base36Fold(u) ==
  IF u = <<>> THEN 0
  ELSE Base36Fold(SubSeq(u, 1, Len(u) - 1)) * 36 + Base36Digit(u[Len(u)])

\* base36_to_int: the value, or the ValueError of an invalid character.
base36_to_int(s) ==
  LET u == Upper(s)
  IN  IF \E k \in 1..Len(u) : ~IsBase36Char(u[k])
      THEN [ok |-> FALSE, value |-> 0]
      ELSE [ok |-> TRUE, value |-> Base36Fold(u)]

\* An exception leaving the function, at the named step; cent is the local
\* century where line 217 was reached, -1 where it was not.
Raise(exc, where, cent) ==
  [kind |-> exc, at |-> where, value |-> None, century |-> cent]

\* A value returned by the function at the named step.
Return(where, v, cent) ==
  [kind |-> "ok", at |-> where, value |-> v, century |-> cent]

\* A century check that lets every capital letter through.
IsCenturyCodeFromA(c) == Ord("A") <= Ord(c) /\ Ord(c) <= Ord("Z")

IsCenturyCode(c) == Ord("I") <= Ord(c) /\ Ord(c) <= Ord("Z")

\* A century rule that takes J, not I, as the first letter's neighbour.
CenturyFromJ(c) == 1800 + 100 * (Ord(c) - Ord("J"))

Century(c) == 1800 + 100 * (Ord(c) - Ord("I"))

\* The packed-format branch of mpcepoch2jd, on the stripped text.
DecodePacked(s) ==
  LET dots == {p \in 1..Len(s) : s[p] = "."}
      dot  == CHOOSE p \in dots : TRUE
      integer_part    == IF dots = {} THEN s ELSE SubSeq(s, 1, dot - 1)
      fractional_part == IF dots = {} THEN <<"0">>
                         ELSE SubSeq(s, dot + 1, Len(s))
      c       == UpperChar(integer_part[1])
      century == Century(c)
      yytext  == Slice(integer_part, 1, 3)
      year    == century + IntValue(yytext)
      doy     == base36_to_int(Slice(integer_part, 3, 5))
      fractxt == <<"0", ".">> \o fractional_part
      date    == DatePlus(year, TimeDelta(doy.value - 1, FloatValue(fractxt)))
  IN  IF Cardinality(dots) > 1 THEN Raise("ValueError", "split", -1)
      ELSE IF integer_part = <<>> THEN Raise("IndexError", "century", -1)
      ELSE IF ~IsCenturyCode(c) THEN Raise("ValueError", "century", -1)
      ELSE IF ~IsInt(yytext) THEN Raise("ValueError", "yy", century)
      ELSE IF ~doy.ok THEN Raise("ValueError", "base36", century)
      ELSE IF ~IsFloat(fractxt) THEN Raise("ValueError", "fraction", century)
      ELSE Return("packed", utc2jd(IsoFormat(date)), century)

\* A decoder without the numeric bypass.
mpcepoch2jdNoBypass(code) == DecodePacked(Strip(code))

\* mpcepoch2jd: the numeric bypass, then the packed format.
mpcepoch2jd(code) ==
  LET s == Strip(code)
  IN  IF IsFloat(s) THEN Return("float", FloatValue(s), -1)
      ELSE DecodePacked(s)

---------------------------------------------------------------------------
(* Fixed-point arithmetic and solve_kepler_eq.  One unit is a thousandth:  *)
(* angles are in milliradians, sines, cosines and eccentricities in        *)
(* thousandths.                                                            *)

\* The fixed-point one.
Unit == 1000

\* pi in milliradians.
HalfTurn == 3142

Mul(u, v) == (u * v) \div Unit

Div(u, v) == (u * Unit) \div v

Clamp(u) == IF u > Unit THEN Unit ELSE IF u < 0 - Unit THEN 0 - Unit ELSE u

\* An angle brought into [-pi, pi).
Reduce(t) == ((t + HalfTurn) % (2 * HalfTurn)) - HalfTurn

Abs(u) == IF u < 0 THEN 0 - u ELSE u

\* sin on [-pi/2, pi/2]: x - x^3/6 + x^5/120.
SinSeries(t) ==
  LET t2 == Mul(t, t)
      t3 == Mul(t2, t)
      t5 == Mul(t3, t2)
  IN  Clamp(t - t3 \div 6 + t5 \div 120)

\* cos on [0, pi/2]: 1 - x^2/2 + x^4/24 - x^6/720.
CosSeries(t) ==
  LET t2 == Mul(t, t)
      t4 == Mul(t2, t2)
      t6 == Mul(t4, t2)
  IN  Clamp(Unit - t2 \div 2 + t4 \div 24 - t6 \div 720)

\* np.sin
Sin(t) ==
  LET u == Reduce(t)
  IN  IF 2 * u > HalfTurn THEN SinSeries(HalfTurn - u)
      ELSE IF 2 * u < 0 - HalfTurn THEN SinSeries(0 - HalfTurn - u)
      ELSE SinSeries(u)

\* np.cos
Cos(t) ==
  LET u == Abs(Reduce(t))
  IN  IF 2 * u > HalfTurn THEN 0 - CosSeries(HalfTurn - u) ELSE CosSeries(u)

\* A Newton update that takes the cosine where the residual has the sine.
NewtonUpdateCosSlip(E0, M0, e0) ==
  E0 - Div(E0 - Mul(e0, Cos(E0)) - M0, Unit - Mul(e0, Cos(E0)))

\* E - (E - e*sin(E) - M) / (1 - e*cos(E)), for one element.
NewtonUpdate(E0, M0, e0) ==
  E0 - Div(E0 - Mul(e0, Sin(E0)) - M0, Unit - Mul(e0, Cos(E0)))

\* The same, elementwise over the arrays.
NewtonUpdateAll(Es, Ms, es) ==
  [k \in 1..Len(Es) |-> NewtonUpdate(Es[k], Ms[k], es[k])]

\* solve_kepler_eq as a function: E = M.copy(), then max_iter updates.
RECURSIVE KeplerLoop(_, _, _, _)
KeplerLoop(Es, Ms, es, left) ==
  IF left <= 0 THEN Es
  ELSE KeplerLoop(NewtonUpdateAll(Es, Ms, es), Ms, es, left - 1)

solve_kepler_eq(Ms, es, iterations) == KeplerLoop(Ms, Ms, es, iterations)

---------------------------------------------------------------------------
(* The script: numeric helpers.  Catalogue angles are in millidegrees,     *)
(* lengths in thousandths of an astronomical unit.                         *)

\* np.deg2rad: millidegrees to milliradians.
deg2rad(d) == (d * HalfTurn) \div 180000

\* The square root of a fixed-point number, by Newton steps from above.
RECURSIVE SqrtSteps(_, _, _)
SqrtSteps(v, guess, left) ==
  IF left = 0 \/ guess = 0 THEN guess
  ELSE SqrtSteps(v, (guess + v \div guess) \div 2, left - 1)

\* np.sqrt
Sqrt(v) == SqrtSteps(v * Unit, 2 * Unit, 12)

\* arctan on [0, 1].
AtanSeries(z) == Mul(z, HalfTurn \div 4) + Mul(273, Mul(z, Unit - z))

\* np.arctan2
Atan2(yy, xx) ==
  LET ax == Abs(xx)
      ay == Abs(yy)
      t  == IF ax = 0 /\ ay = 0 THEN 0
            ELSE IF ax >= ay THEN AtanSeries(Div(ay, ax))
            ELSE HalfTurn \div 2 - AtanSeries(Div(ax, ay))
      u  == IF xx < 0 THEN HalfTurn - t ELSE t
  IN  IF yy < 0 THEN 0 - u ELSE u

\* A Julian Date returned by mpcepoch2jd as a day number (JD = day + 0.5)
\* and the seconds of that day: a packed code's date as it is, a numeric
\* text's number (of at most three decimals) converted.
JdParts(v) ==
  IF "day" \in DOMAIN v THEN v
  ELSE LET p     == Pow10(v.scale)
           whole == IF v.scale <= 0 THEN v.num * Pow10(0 - v.scale)
                    ELSE v.num \div p
           milli == IF v.scale <= 0 THEN 0
                    ELSE (v.num % p) * Pow10(3 - v.scale)
           shift == (whole * 2 - 1) * 500 + milli
       IN  [day |-> shift \div 1000,
            sec |-> ((shift % 1000) * 864) \div 10,
            us  |-> 0]

\* M + n*(jd_now - epoch_jd) for one body: n is in milliradians a day.
Extrapolate(M0, n0, now, then) ==
  M0 + n0 * (now.day - then.day) + (n0 * (now.sec - then.sec)) \div 86400

\* Lines 112 to 125 for one body: the distance and the position.
Position(E0, e0, a0, omega0, Omega0, inc0) ==
  LET nu == 2 * Atan2(Mul(Sqrt(Unit + e0), Sin(E0 \div 2)),
                      Mul(Sqrt(Unit - e0), Cos(E0 \div 2)))
      nu_total == (omega0 + nu) % (2 * HalfTurn)
      r0 == Mul(a0, Unit - Mul(e0, Cos(E0)))
  IN  [r |-> r0,
       x |-> Mul(r0, Mul(Cos(Omega0), Cos(nu_total))
                       - Mul(Mul(Sin(Omega0), Sin(nu_total)), Cos(inc0))),
       y |-> Mul(r0, Mul(Sin(Omega0), Cos(nu_total))
                       + Mul(Mul(Cos(Omega0), Sin(nu_total)), Cos(inc0)))]

---------------------------------------------------------------------------
(* The script: the classification masks, colours and counts.               *)

\* q = a * (1 - e), in millionths of an astronomical unit.
Perihelion(a0, e0) == a0 * (Unit - e0)

\* q < 1.3 and q >= 1.3
QBelow(a0, e0) == Perihelion(a0, e0) < 1300 * Unit

QAtLeast(a0, e0) == Perihelion(a0, e0) >= 1300 * Unit

\* An NEA mask with q <= 1.3.
MaskNeaInclusive(a0, e0) == Perihelion(a0, e0) <= 1300 * Unit

MaskNea(a0, e0) == QBelow(a0, e0)

\* An MBA mask without the q >= 1.3 term.
MaskMbaNoQ(a0, e0) == a0 >= 1800 /\ a0 <= 3300

MaskMba(a0, e0) == QAtLeast(a0, e0) /\ a0 >= 1800 /\ a0 <= 3300

MaskHilda(a0, e0) ==
  QAtLeast(a0, e0) /\ a0 >= 3700 /\ a0 <= 4000 /\ e0 >= 70 /\ e0 <= 300

MaskTrojan(a0, e0) == QAtLeast(a0, e0) /\ a0 >= 5000 /\ a0 <= 5400

\* A TNO mask without the q >= 1.3 term.
MaskTnoNoQ(a0, e0) == a0 >= 30000

MaskTno(a0, e0) == QAtLeast(a0, e0) /\ a0 >= 30000

cols == <<"red", "green", "orange", "blue", "skyblue", "gray">>

\* colors[m] = c: c where the mask holds, the colour as it was elsewhere.
Paint(colours, m, c) ==
  [k \in 1..Len(colours) |-> IF m[k] THEN c ELSE colours[k]]

\* np.sum of a mask
Sum(m) == Cardinality({k \in 1..Len(m) : m[k]})

---------------------------------------------------------------------------
(* The decoder on its own: one call of mpcepoch2jd on a text.              *)

CenturyChars ==
  {"I", "J", "K", "L", "M", "N", "O", "P", "Q", "R", "S", "T", "U", "V", "W",
   "X", "Y", "Z", "k", "H", "A", "h", "[", "0"}

YearTexts == {<<"0", "0">>, <<"1", "4">>, <<"9", "6">>, <<"9", "9">>,
              <<"1", "R">>}

DayChars == {"0", "1", "R", "Z", "a", "#"}

FracTexts == {<<>>, <<".", "5">>, <<".", "2", "5">>, <<".", "1", "2", "5">>}

\* Century, year, day and fraction fields put together.
PackedInputs ==
  {<<cc>> \o yy \o <<d1, d2>> \o ff :
     cc \in CenturyChars, yy \in YearTexts, d1 \in DayChars, d2 \in DayChars,
     ff \in FracTexts}

\* Numeric texts, padded texts, and texts too short, too long or ill-formed.
OtherInputs ==
  {<<>>, <<" ">>, <<".">>, <<".", "5">>, <<"5", ".">>, <<"2", "4">>,
   <<" ", "2", "4", "6", "0", "0", "0", "0", ".", "5", " ">>,
   <<"1", "e", "3">>, <<"1", "_", "0">>, <<"+", "1">>, <<"-", "2", ".", "5">>,
   <<"i", "n", "f">>, <<"n", "a", "n">>, <<"-", "I", "N", "F">>,
   <<"I", "n", "f", "i", "n", "i", "t", "y">>, <<"N", "A", "N">>,
   <<"0", "x", "1", "0">>, <<".", "x">>,
   <<"K">>, <<"K", "1">>, <<"K", "1", "4">>, <<"K", "1", "4", "1">>,
   <<"K", "1", "4", "1", "R", "X">>, <<" ", "K", "1", "4", "1", "R", " ">>,
   <<"K", "1", "4", ".", "1", ".", "2">>, <<"K", "1", "4", "1", "R", ".">>,
   <<"K", "-", "1", "0", "1">>, <<"K", "1", "4", "1", "R", ".", "x">>,
   <<"H", "1", ".", "2", ".", "3">>, <<"N", "a", "N", "0", "1">>}

EpochInputs == PackedInputs \cup OtherInputs

NoResult == [kind |-> "None", at |-> "None", value |-> None, century |-> -1]

\* The decoder before a call: the state of the decoder's variables in the
\* specifications of the other functions.
DecoderIdle ==
  /\ epoch_code = <<>>
  /\ result = NoResult
  /\ dpc = "idle"

\* The solver before a call.
KeplerIdle ==
  /\ kM = <<>>
  /\ ke = <<>>
  /\ kE = <<>>
  /\ max_iter = 0
  /\ kiter = 0
  /\ kpc = "idle"

NoJd == [day |-> 0, sec |-> 0, us |-> 0]

NoMask == [nea |-> <<>>, mba |-> <<>>, hilda |-> <<>>, trojan |-> <<>>,
           tno |-> <<>>]

NoCounts == [all |-> 0, nea |-> 0, mba |-> 0, hilda |-> 0, trojan |-> 0,
             tno |-> 0, others |-> 0]

NoFailure == [exc |-> "None", line |-> 0, body |-> 0]

\* The names of the script not bound yet: nothing read, nothing computed.
NothingComputed ==
  /\ fpos = 0
  /\ jd_now = NoJd
  /\ epoch = <<>> /\ M = <<>> /\ omega = <<>> /\ Omega = <<>>
  /\ inc = <<>> /\ e = <<>> /\ a = <<>> /\ n = <<>>
  /\ decoded = <<>> /\ didx = 0 /\ epoch_jd = <<>> /\ M_t = <<>>
  /\ E = <<>> /\ r = <<>> /\ x = <<>> /\ y = <<>>
  /\ mask = NoMask /\ colors = <<>> /\ N = NoCounts
  /\ assigned = {}
  /\ failure = NoFailure

\* The script not running.
ScriptIdle ==
  /\ catalog = <<>>
  /\ Nobj = <<>>
  /\ target = [year |-> 2000, month |-> 1, day |-> 1, hour |-> 0,
               minute |-> 0, second |-> 0, us |-> 0]
  /\ pc = "idle"
  /\ NothingComputed

DecoderInit ==
  /\ epoch_code \in EpochInputs
  /\ result = NoResult
  /\ dpc = "call"
  /\ KeplerIdle
  /\ ScriptIdle

\* date_jd = mpcepoch2jd(epoch_code)
Decode ==
  /\ dpc = "call"
  /\ result' = mpcepoch2jd(epoch_code)
  /\ dpc' = "returned"
  /\ UNCHANGED <<epoch_code, keplerVars, scriptVars>>

SpecEpoch == DecoderInit /\ [][Decode]_vars

---------------------------------------------------------------------------
(* The solver on its own: one call of solve_kepler_eq on arrays.           *)

\* The longest array and the largest iteration count of the solver's runs.
MaxArray == 2

MaxIterations == 10

MeanAnomalies == {0, 800, -2500}

Eccentricities == {0, 300, 900}

ArraysOf(S) == UNION {[1..len -> S] : len \in 1..MaxArray}

KeplerInit ==
  /\ kM \in ArraysOf(MeanAnomalies)
  /\ ke \in ArraysOf(Eccentricities)
  /\ Len(ke) = Len(kM)
  /\ max_iter \in 0..MaxIterations
  /\ kE = <<>>
  /\ kiter = 0
  /\ kpc = "entry"
  /\ DecoderIdle
  /\ ScriptIdle

\* E = M.copy()
KeplerCopy ==
  /\ kpc = "entry"
  /\ kE' = kM
  /\ kpc' = "loop"
  /\ UNCHANGED <<kM, ke, max_iter, kiter, decoderVars, scriptVars>>

\* One pass of the loop body.
KeplerIterate ==
  /\ kpc = "loop"
  /\ kiter < max_iter
  /\ kE' = NewtonUpdateAll(kE, kM, ke)
  /\ kiter' = kiter + 1
  /\ UNCHANGED <<kM, ke, max_iter, kpc, decoderVars, scriptVars>>

\* return E
KeplerReturn ==
  /\ kpc = "loop"
  /\ kiter >= max_iter
  /\ kpc' = "returned"
  /\ UNCHANGED <<kM, ke, kE, max_iter, kiter, decoderVars, scriptVars>>

KeplerNext == KeplerCopy \/ KeplerIterate \/ KeplerReturn

SpecKepler == KeplerInit /\ [][KeplerNext]_vars

---------------------------------------------------------------------------
(* The script: reading the catalogue, decoding the epochs, propagating,    *)
(* classifying and counting.  The lines of the data section are blank or   *)
(* well-formed element records.                                            *)

\* The longest data section, and the largest --Nobj, of the script's runs.
MaxLines == 3

MaxNobj == 2

\* The default max_iter of solve_kepler_eq.
DefaultMaxIter == 10

TextLine == [kind |-> "text"]

RuleLine == [kind |-> "rule"]

BlankLine == [kind |-> "blank"]

\* Element records: a main-belt body with a packed epoch, a near-Earth body
\* with a numeric epoch, and two bodies whose epochs do not decode.
DataLines ==
  {[kind |-> "data", epoch |-> <<"K", "1", "4", "1", "R">>, M |-> 95000,
    omega |-> 73000, Omega |-> 80000, inc |-> 10600, e |-> 76, n |-> 214,
    a |-> 2767],
   [kind |-> "data", epoch |-> <<"2", "4", "6", "0", "0">>, M |-> 200000,
    omega |-> 285000, Omega |-> 337000, inc |-> 22800, e |-> 560, n |-> 1120,
    a |-> 922],
   [kind |-> "data", epoch |-> <<"H", "1", "4", "1", "R">>, M |-> 10000,
    omega |-> 20000, Omega |-> 30000, inc |-> 5000, e |-> 150, n |-> 126,
    a |-> 3950],
   [kind |-> "data", epoch |-> <<"K", "1", "4", "#", "1">>, M |-> 350000,
    omega |-> 0, Omega |-> 180000, inc |-> 0, e |-> 0, n |-> 6,
    a |-> 30000]}

Heads == {<<>>, <<RuleLine>>, <<TextLine, RuleLine>>}

DataSections ==
  UNION {[1..len -> {BlankLine} \cup DataLines] : len \in 0..MaxLines}

Catalogs == {head \o body : head \in Heads, body \in DataSections}

TargetEpochs ==
  {[year |-> 2025, month |-> 1, day |-> 1, hour |-> 12, minute |-> 0,
    second |-> 0, us |-> 0]}

Init ==
  /\ catalog \in Catalogs
  /\ Nobj \in {<<>>} \cup {<<k>> : k \in -1..MaxNobj}
  /\ target \in TargetEpochs
  /\ pc = "header"
  /\ NothingComputed
  /\ DecoderIdle
  /\ KeplerIdle

Fail(exc, line, body) ==
  /\ pc' = "failed"
  /\ failure' = [exc |-> exc, line |-> line, body |-> body]

\* Lines 60 to 63: a line of the header; the rule ends the header.
SkipHeader ==
  /\ pc = "header"
  /\ fpos < Len(catalog)
  /\ fpos' = fpos + 1
  /\ pc' = IF catalog[fpos + 1].kind = "rule" THEN "data" ELSE "header"
  /\ UNCHANGED <<decoderVars, keplerVars>>
  /\ UNCHANGED <<catalog, Nobj, target, jd_now, elementVars, stateVars,
                 classVars, assigned, failure>>

\* Line 60, the file exhausted: the first loop ends without a rule.
HeaderEnds ==
  /\ pc = "header"
  /\ fpos = Len(catalog)
  /\ pc' = "data"
  /\ UNCHANGED <<decoderVars, keplerVars>>
  /\ UNCHANGED <<catalog, Nobj, target, fpos, jd_now, elementVars, stateVars,
                 classVars, assigned, failure>>

\* Lines 64 to 79: a line of the data section.
ReadLine ==
  /\ pc = "data"
  /\ fpos < Len(catalog)
  /\ fpos' = fpos + 1
  /\ LET line == catalog[fpos + 1]
     IN  IF line.kind = "blank"
         THEN /\ UNCHANGED elementVars
              /\ pc' = "data"
         ELSE /\ epoch' = Append(epoch, Strip(line.epoch))
              /\ M' = Append(M, line.M)
              /\ omega' = Append(omega, line.omega)
              /\ Omega' = Append(Omega, line.Omega)
              /\ inc' = Append(inc, line.inc)
              /\ e' = Append(e, line.e)
              /\ a' = Append(a, line.a)
              /\ n' = Append(n, line.n)
              /\ pc' = IF Nobj # <<>> /\ Len(a') >= Nobj[1]
                       THEN "convert" ELSE "data"
  /\ UNCHANGED <<decoderVars, keplerVars>>
  /\ UNCHANGED <<catalog, Nobj, target, jd_now, stateVars, classVars,
                 assigned, failure>>

\* Line 64, the file exhausted: the second loop ends.
DataEnds ==
  /\ pc = "data"
  /\ fpos = Len(catalog)
  /\ pc' = "convert"
  /\ UNCHANGED <<decoderVars, keplerVars>>
  /\ UNCHANGED <<catalog, Nobj, target, fpos, jd_now, elementVars, stateVars,
                 classVars, assigned, failure>>

\* Lines 81 to 93: the angles to radians, and the target's Julian Date.
Convert ==
  /\ pc = "convert"
  /\ M' = [k \in 1..Len(M) |-> deg2rad(M[k])]
  /\ omega' = [k \in 1..Len(omega) |-> deg2rad(omega[k])]
  /\ Omega' = [k \in 1..Len(Omega) |-> deg2rad(Omega[k])]
  /\ inc' = [k \in 1..Len(inc) |-> deg2rad(inc[k])]
  /\ n' = [k \in 1..Len(n) |-> deg2rad(n[k])]
  /\ jd_now' = utc2jd(target)
  /\ pc' = "decode"
  /\ UNCHANGED <<decoderVars, keplerVars>>
  /\ UNCHANGED <<catalog, Nobj, target, fpos, epoch, e, a, stateVars,
                 classVars, assigned, failure>>

\* A comprehension that leaves out an epoch that does not decode.
DecodeOneSkip ==
  /\ pc = "decode"
  /\ didx < Len(epoch)
  /\ didx' = didx + 1
  /\ LET res == mpcepoch2jd(epoch[didx + 1])
     IN  decoded' = IF res.kind = "ok" THEN Append(decoded, JdParts(res.value))
                    ELSE Append(decoded, NoJd)
  /\ UNCHANGED <<decoderVars, keplerVars>>
  /\ UNCHANGED <<catalog, Nobj, target, pc, fpos, jd_now, elementVars,
                 epoch_jd, M_t, E, r, x, y, classVars, assigned, failure>>

\* Line 95, one element of the comprehension: mpcepoch2jd of the next epoch;
\* what it raises ends the script.
DecodeOne ==
  /\ pc = "decode"
  /\ didx < Len(epoch)
  /\ didx' = didx + 1
  /\ LET res == mpcepoch2jd(epoch[didx + 1])
     IN  IF res.kind = "ok"
         THEN /\ decoded' = Append(decoded, JdParts(res.value))
              /\ UNCHANGED <<pc, failure>>
         ELSE /\ Fail(res.kind, 95, didx + 1)
              /\ UNCHANGED decoded
  /\ UNCHANGED <<decoderVars, keplerVars>>
  /\ UNCHANGED <<catalog, Nobj, target, fpos, jd_now, elementVars,
                 epoch_jd, M_t, E, r, x, y, classVars, assigned>>

\* Lines 95 to 98, the comprehension done: epoch_jd, dt_days and M_t.
DecodeDone ==
  /\ pc = "decode"
  /\ didx = Len(epoch)
  /\ epoch_jd' = decoded
  /\ M_t' = [k \in 1..Len(M) |-> Extrapolate(M[k], n[k], jd_now, decoded[k])]
  /\ assigned' = assigned \cup {"epoch_jd", "M_t"}
  /\ pc' = "check"
  /\ UNCHANGED <<decoderVars, keplerVars>>
  /\ UNCHANGED <<catalog, Nobj, target, fpos, jd_now, elementVars, decoded,
                 didx, E, r, x, y, classVars, failure>>

\* Lines 100 to 107: np.min of no epochs raises ValueError.
CheckEpochs ==
  /\ pc = "check"
  /\ IF Len(epoch_jd) = 0
     THEN Fail("ValueError", 100, 0)
     ELSE pc' = "solve" /\ UNCHANGED failure
  /\ UNCHANGED <<decoderVars, keplerVars>>
  /\ UNCHANGED <<catalog, Nobj, target, fpos, jd_now, elementVars, stateVars,
                 classVars, assigned>>

\* Lines 110 to 125: the eccentric anomaly, the distance and the position.
Solve ==
  /\ pc = "solve"
  /\ E' = solve_kepler_eq(M_t, e, DefaultMaxIter)
  /\ r' = [k \in 1..Len(a) |->
             Position(E'[k], e[k], a[k], omega[k], Omega[k], inc[k]).r]
  /\ x' = [k \in 1..Len(a) |->
             Position(E'[k], e[k], a[k], omega[k], Omega[k], inc[k]).x]
  /\ y' = [k \in 1..Len(a) |->
             Position(E'[k], e[k], a[k], omega[k], Omega[k], inc[k]).y]
  /\ assigned' = assigned \cup {"E", "x", "y"}
  /\ pc' = "classify"
  /\ UNCHANGED <<decoderVars, keplerVars>>
  /\ UNCHANGED <<catalog, Nobj, target, fpos, jd_now, elementVars, decoded,
                 didx, epoch_jd, M_t, classVars, failure>>

\* Lines 132 to 149: the five masks, then the colours painted in turn over
\* the default.
Classify ==
  /\ pc = "classify"
  /\ mask' = [nea    |-> [k \in 1..Len(a) |-> MaskNea(a[k], e[k])],
              mba    |-> [k \in 1..Len(a) |-> MaskMba(a[k], e[k])],
              hilda  |-> [k \in 1..Len(a) |-> MaskHilda(a[k], e[k])],
              trojan |-> [k \in 1..Len(a) |-> MaskTrojan(a[k], e[k])],
              tno    |-> [k \in 1..Len(a) |-> MaskTno(a[k], e[k])]]
  /\ LET c0 == [k \in 1..Len(a) |-> cols[6]]
         c1 == Paint(c0, mask'.nea, cols[1])
         c2 == Paint(c1, mask'.mba, cols[2])
         c3 == Paint(c2, mask'.hilda, cols[3])
         c4 == Paint(c3, mask'.trojan, cols[4])
     IN  colors' = Paint(c4, mask'.tno, cols[5])
  /\ assigned' = assigned \cup {"colors"}
  /\ pc' = "count"
  /\ UNCHANGED <<decoderVars, keplerVars>>
  /\ UNCHANGED <<catalog, Nobj, target, fpos, jd_now, elementVars, stateVars,
                 N, failure>>

\* Lines 152 to 158: the counts, N_others as the remainder.
Count ==
  /\ pc = "count"
  /\ N' = [all    |-> Len(a),
           nea    |-> Sum(mask.nea),
           mba    |-> Sum(mask.mba),
           hilda  |-> Sum(mask.hilda),
           trojan |-> Sum(mask.trojan),
           tno    |-> Sum(mask.tno),
           others |-> Len(a) - (Sum(mask.nea) + Sum(mask.mba) + Sum(mask.hilda)
                                  + Sum(mask.trojan) + Sum(mask.tno))]
  /\ assigned' = assigned \cup {"N"}
  /\ pc' = "plot"
  /\ UNCHANGED <<decoderVars, keplerVars>>
  /\ UNCHANGED <<catalog, Nobj, target, fpos, jd_now, elementVars, stateVars,
                 mask, colors, failure>>

Next ==
  \/ SkipHeader
  \/ HeaderEnds
  \/ ReadLine
  \/ DataEnds
  \/ Convert
  \/ DecodeOne
  \/ DecodeDone
  \/ CheckEpochs
  \/ Solve
  \/ Classify
  \/ Count

Spec == Init /\ [][Next]_vars

---------------------------------------------------------------------------
(* The classifier on its own: the script from line 132, after a catalogue  *)
(* of bodies at perihelion in the reference plane has been read, decoded   *)
(* and propagated.                                                         *)

\* The largest population of the classifier's runs.
MaxBodies == 2

\* (a, e) in thousandths: bodies on and beside every threshold, and bodies
\* whose a lies in a family's range while q < 1.3.
Bodies ==
  {<<1300, 0>>, <<1299, 0>>, <<2600, 500>>, <<2600, 501>>,
   <<1799, 0>>, <<1800, 0>>, <<3300, 0>>, <<3301, 0>>,
   <<3699, 100>>, <<3700, 100>>, <<4000, 100>>, <<4001, 100>>,
   <<3850, 69>>, <<3850, 70>>, <<3850, 300>>, <<3850, 301>>, <<3850, 700>>,
   <<4999, 0>>, <<5000, 0>>, <<5400, 0>>, <<5401, 0>>, <<5200, 800>>,
   <<29999, 0>>, <<30000, 0>>, <<30000, 960>>, <<40000, 500>>}

Populations == UNION {[1..len -> Bodies] : len \in 1..MaxBodies}

\* The catalogue line of a body at perihelion, all angles zero, at rest.
LineOf(body) ==
  [kind |-> "data", epoch |-> <<"K", "1", "4", "1", "R">>, M |-> 0,
   omega |-> 0, Omega |-> 0, inc |-> 0, e |-> body[2], n |-> 0,
   a |-> body[1]]

Zeros(len) == [k \in 1..len |-> 0]

\* The epoch of these lines, decoded.
EpochOfLines == JdParts(mpcepoch2jd(<<"K", "1", "4", "1", "R">>).value)

\* The state in which the script reaches line 132 on such a catalogue.
ClassifyInit ==
  \E pop \in Populations :
    LET len == Len(pop)
        jd  == EpochOfLines
    IN  /\ catalog = <<RuleLine>> \o [k \in 1..len |-> LineOf(pop[k])]
        /\ Nobj = <<>>
        /\ target \in TargetEpochs
        /\ pc = "classify"
        /\ fpos = len + 1
        /\ jd_now = utc2jd(target)
        /\ epoch = [k \in 1..len |-> <<"K", "1", "4", "1", "R">>]
        /\ M = Zeros(len) /\ omega = Zeros(len) /\ Omega = Zeros(len)
        /\ inc = Zeros(len) /\ n = Zeros(len)
        /\ e = [k \in 1..len |-> pop[k][2]]
        /\ a = [k \in 1..len |-> pop[k][1]]
        /\ decoded = [k \in 1..len |-> jd]
        /\ didx = len
        /\ epoch_jd = [k \in 1..len |-> jd]
        /\ M_t = Zeros(len)
        /\ E = Zeros(len)
        /\ r = [k \in 1..len |-> Position(0, pop[k][2], pop[k][1], 0, 0, 0).r]
        /\ x = [k \in 1..len |-> Position(0, pop[k][2], pop[k][1], 0, 0, 0).x]
        /\ y = [k \in 1..len |-> Position(0, pop[k][2], pop[k][1], 0, 0, 0).y]
        /\ mask = NoMask /\ colors = <<>> /\ N = NoCounts
        /\ assigned = {"epoch_jd", "M_t", "E", "x", "y"}
        /\ failure = NoFailure
        /\ DecoderIdle
        /\ KeplerIdle

ClassifyNext == Classify \/ Count

SpecClassify == ClassifyInit /\ [][ClassifyNext]_vars

---------------------------------------------------------------------------
(* Properties of the script.                                               *)

Bodies1ToN == 1..Len(a)

\* How many of the five masks hold for body k.
MasksHolding(k) ==
  Cardinality({f \in {"nea", "mba", "hilda", "trojan", "tno"} : mask[f][k]})

\* C1: once the colours are painted, the five masks are pairwise disjoint,
\* every body carries exactly one of the six colours, and a body keeps the
\* default colour exactly when no mask holds for it.
C1_Partition ==
  "colors" \in assigned =>
    /\ Len(colors) = Len(a)
    /\ \A k \in Bodies1ToN :
         /\ MasksHolding(k) <= 1
         /\ \E j \in 1..6 : colors[k] = cols[j]
         /\ (colors[k] = "gray") <=> (MasksHolding(k) = 0)
         /\ mask.nea[k] => colors[k] = "red"
         /\ mask.mba[k] => colors[k] = "green"
         /\ mask.hilda[k] => colors[k] = "orange"
         /\ mask.trojan[k] => colors[k] = "blue"
         /\ mask.tno[k] => colors[k] = "skyblue"

C1_Witness ==
  /\ pc = "plot"
  /\ Len(a) = 2
  /\ a[1] = 2600 /\ e[1] = 501 /\ colors[1] = "red"
  /\ a[2] = 3301 /\ colors[2] = "gray"

\* The label of the first rule that matches, in the order NEA, MBA, Hilda,
\* Trojan, TNO, Other, every bound inclusive; q = a*(1 - e) in millionths.
FirstMatch(a0, e0) ==
  LET q == a0 * (1000 - e0)
  IN  IF q < 1300000 THEN "red"
      ELSE IF 1800 <= a0 /\ a0 <= 3300 THEN "green"
      ELSE IF 3700 <= a0 /\ a0 <= 4000 /\ 70 <= e0 /\ e0 <= 300 THEN "orange"
      ELSE IF 5000 <= a0 /\ a0 <= 5400 THEN "blue"
      ELSE IF a0 >= 30000 THEN "skyblue"
      ELSE "gray"

\* C2: the colour left after the five assignments is that of the first rule
\* that matches; a body with q exactly 1.3 is not an NEA, and a body with
\* q >= 1.3 on a = 1.8, 3.3, 3.7, 4.0, 5.0, 5.4, 30.0 or on e = 0.07, 0.3 is
\* inside the corresponding family.
C2_FirstMatchWins ==
  "colors" \in assigned =>
    \A k \in Bodies1ToN :
      /\ colors[k] = FirstMatch(a[k], e[k])
      /\ a[k] * (1000 - e[k]) = 1300000 => (~mask.nea[k] /\ colors[k] # "red")
      /\ (a[k] \in {1800, 3300} /\ e[k] = 0) => colors[k] = "green"
      /\ (a[k] \in {3700, 4000} /\ e[k] = 100) => colors[k] = "orange"
      /\ (a[k] = 3850 /\ e[k] \in {70, 300}) => colors[k] = "orange"
      /\ (a[k] \in {5000, 5400} /\ e[k] = 0) => colors[k] = "blue"
      /\ (a[k] = 30000 /\ e[k] = 0) => colors[k] = "skyblue"

C2_Witness ==
  /\ pc = "plot"
  /\ Len(a) = 2
  /\ a[1] = 1300 /\ e[1] = 0 /\ colors[1] = "gray"
  /\ a[2] = 2600 /\ e[2] = 500 /\ colors[2] = "green"

HowMany(colour) == Cardinality({k \in Bodies1ToN : colors[k] = colour})

\* C3: once counted, N_others is the number of bodies that hold no mask and
\* kept the default colour, each count is the number of bodies of its
\* colour and is not negative, and the six counts sum to the population.
C3_CountsAgree ==
  "N" \in assigned =>
    /\ N.others = Cardinality({k \in Bodies1ToN : MasksHolding(k) = 0})
    /\ N.others = HowMany("gray")
    /\ N.nea = HowMany("red")
    /\ N.mba = HowMany("green")
    /\ N.hilda = HowMany("orange")
    /\ N.trojan = HowMany("blue")
    /\ N.tno = HowMany("skyblue")
    /\ \A f \in DOMAIN N : N[f] >= 0
    /\ N.all = Len(a)
    /\ N.nea + N.mba + N.hilda + N.trojan + N.tno + N.others = Len(a)

C3_Witness ==
  /\ pc = "plot"
  /\ N.all = 2
  /\ N.tno = 1
  /\ N.others = 1
  /\ a[1] = 30000 /\ e[1] = 0
  /\ a[2] = 29999

\* Whether the epoch of body k decodes.
Decodes(k) == mpcepoch2jd(epoch[k]).kind = "ok"

NothingProduced ==
  /\ assigned = {}
  /\ epoch_jd = <<>> /\ M_t = <<>> /\ E = <<>> /\ x = <<>> /\ y = <<>>
  /\ colors = <<>>
  /\ N = NoCounts

\* C7: while the population holds a body whose epoch does not decode, no
\* propagated state, colour or count exists for any body, and once the
\* comprehension has reached that body the script has ended with the
\* decoder's exception.
C7_AllOrNothing ==
  (\E k \in 1..Len(epoch) : ~Decodes(k)) =>
    /\ NothingProduced
    /\ pc \in {"header", "data", "convert", "decode", "failed"}
    /\ pc = "failed" =>
         /\ failure.line = 95
         /\ failure.exc \in {"ValueError", "IndexError"}
         /\ ~Decodes(failure.body)
         /\ \A j \in 1..(failure.body - 1) : Decodes(j)

C7_Witness ==
  /\ pc = "failed"
  /\ failure.line = 95
  /\ failure.body = 2
  /\ Len(decoded) = 1
  /\ Len(epoch) = 3
  /\ NothingProduced

\* The lines of the catalogue after the rule that are not blank.
DataLinesAfterRule ==
  LET rules == {k \in 1..Len(catalog) : catalog[k].kind = "rule"}
      first == CHOOSE k \in rules : \A j \in rules : k <= j
  IN  IF rules = {} THEN 0
      ELSE Cardinality({k \in (first + 1)..Len(catalog) :
                          catalog[k].kind # "blank"})

SameLengths ==
  /\ Len(epoch) = Len(a) /\ Len(M) = Len(a) /\ Len(omega) = Len(a)
  /\ Len(Omega) = Len(a) /\ Len(inc) = Len(a) /\ Len(e) = Len(a)
  /\ Len(n) = Len(a)

\* C8 as stated: after the reading loop the population is no larger than
\* Nobj, for every integer Nobj; without a limit every non-blank line after
\* the header is a body; and the eight element lists have one length.
C8_Original ==
  pc \notin {"header", "data"} =>
    /\ Nobj # <<>> => Len(a) <= Nobj[1]
    /\ Nobj = <<>> => Len(a) = DataLinesAfterRule
    /\ SameLengths

\* C8, the part the script keeps: a limit of at least 1 bounds the
\* population, no limit takes every body, and the lists have one length.
C8_PositiveLimit ==
  pc \notin {"header", "data"} =>
    /\ (Nobj # <<>> /\ Nobj[1] >= 1) => Len(a) <= Nobj[1]
    /\ (Nobj # <<>> /\ Nobj[1] < 1) => Len(a) <= 1
    /\ Nobj = <<>> => Len(a) = DataLinesAfterRule
    /\ SameLengths

---------------------------------------------------------------------------
(* Properties of the decoder.                                              *)

CenturyLetters ==
  <<"I", "J", "K", "L", "M", "N", "O", "P", "Q", "R", "S", "T", "U", "V", "W",
    "X", "Y", "Z">>

Base36Alphabet ==
  <<"0", "1", "2", "3", "4", "5", "6", "7", "8", "9", "A", "B", "C", "D", "E",
    "F", "G", "H", "I", "J", "K", "L", "M", "N", "O", "P", "Q", "R", "S", "T",
    "U", "V", "W", "X", "Y", "Z">>

DecimalDigits == <<"0", "1", "2", "3", "4", "5", "6", "7", "8", "9">>

\* The position of ch in a sequence of characters, counted from 0.
IndexIn(seq, ch) == (CHOOSE k \in 1..Len(seq) : seq[k] = ch) - 1

InSeq(seq, ch) == \E k \in 1..Len(seq) : seq[k] = ch

\* Either case of a letter of the base-36 alphabet, or a digit of it.
AnyCase(seq, ch) ==
  \E k \in 1..Len(seq) : seq[k] = ch \/ Lower(<<seq[k]>>) = <<ch>>

IndexAnyCase(seq, ch) ==
  (CHOOSE k \in 1..Len(seq) : seq[k] = ch \/ Lower(<<seq[k]>>) = <<ch>>) - 1

\* The trimmed argument of the call.
Trimmed == Strip(epoch_code)

\* The text before the first "." of the trimmed argument, and what follows.
IntegerText ==
  IF \E p \in 1..Len(Trimmed) : Trimmed[p] = "."
  THEN SubSeq(Trimmed, 1,
              (CHOOSE p \in 1..Len(Trimmed) :
                 Trimmed[p] = "." /\ \A j \in 1..(p - 1) : Trimmed[j] # ".") - 1)
  ELSE Trimmed

FractionText == SubSeq(Trimmed, Len(IntegerText) + 2, Len(Trimmed))

\* C YY DD[.fff]: a capital I..Z, two decimal digits, two base-36 digits
\* of either case, and an optional fraction of one to three digits.
WellFormedPacked ==
  /\ Len(IntegerText) = 5
  /\ InSeq(CenturyLetters, IntegerText[1])
  /\ InSeq(DecimalDigits, IntegerText[2])
  /\ InSeq(DecimalDigits, IntegerText[3])
  /\ AnyCase(Base36Alphabet, IntegerText[4])
  /\ AnyCase(Base36Alphabet, IntegerText[5])
  /\ \/ Trimmed = IntegerText
     \/ /\ Len(FractionText) \in 1..3
        /\ Len(Trimmed) = Len(IntegerText) + 1 + Len(FractionText)
        /\ \A k \in 1..Len(FractionText) : InSeq(DecimalDigits, FractionText[k])

\* The year, day of year and fraction a well-formed code denotes.
DenotedYear ==
  1800 + 100 * IndexIn(CenturyLetters, IntegerText[1])
    + 10 * IndexIn(DecimalDigits, IntegerText[2])
    + IndexIn(DecimalDigits, IntegerText[3])

DenotedDay ==
  36 * IndexAnyCase(Base36Alphabet, IntegerText[4])
    + IndexAnyCase(Base36Alphabet, IntegerText[5])

RECURSIVE DecimalNumber(_)
DecimalNumber(t) ==
  IF t = <<>> THEN 0
  ELSE 10 * DecimalNumber(SubSeq(t, 1, Len(t) - 1))
         + IndexIn(DecimalDigits, t[Len(t)])

\* The Julian Date of 1 January, 0h, of a Gregorian year, less 0.5.
JdOfJanuaryFirst(yr) ==
  1721425 + 365 * (yr - 1) + (yr - 1) \div 4 - (yr - 1) \div 100
    + (yr - 1) \div 400

\* 1 January of the year advanced by (day + 0.fff - 1) days.
DenotedJd ==
  LET thousandths == DecimalNumber(FractionText) * Pow10(3 - Len(FractionText))
      centisec    == thousandths * 8640
  IN  [day |-> JdOfJanuaryFirst(DenotedYear) + DenotedDay - 1,
       sec |-> centisec \div 100,
       us  |-> (centisec % 100) * 10000]

K141R == <<"K", "1", "4", "1", "R">>

\* C4: a well-formed packed code C YY DD[.fff] decodes to the Julian Date of
\* 1 January of year 1800 + 100*(C - 'I') + YY advanced by
\* base36(DD) + 0.fff - 1 days, base 36 read most significant digit first
\* and in either case; K141R is 2014-03-04T00:00:00, JD 2456720.5.
C4_PackedDecodesToDate ==
  (dpc = "returned" /\ WellFormedPacked) =>
     /\ result.kind = "ok"
     /\ result.at = "packed"
     /\ result.value = DenotedJd
     /\ (epoch_code = K141R =>
           result.value = [day |-> 2456720, sec |-> 0, us |-> 0])

C4_Witness ==
  /\ dpc = "returned"
  /\ Trimmed = <<"K", "9", "6", "1", "a", ".", "1", "2", "5">>
  /\ result.kind = "ok"
  /\ result.value = [day |-> 2486653, sec |-> 10800, us |-> 0]

\* The characters the century check lets through, and their centuries.
AcceptedCenturyChars ==
  {AsciiTable[k] : k \in {j \in 1..Len(AsciiTable) :
                            IsCenturyCode(UpperChar(AsciiTable[j]))}}

ReachableCenturies == {Century(UpperChar(ch)) : ch \in AcceptedCenturyChars}

\* C5 as amended: the century marker is a letter I..Z in either case, its
\* century is 1800 + 100*(letter - 'I'), and the centuries reachable are
\* exactly 1800, 1900, ..., 3500.
C5_CenturiesTo3500 ==
  (dpc = "returned" /\ result.century # -1) =>
     /\ AnyCase(CenturyLetters, IntegerText[1])
     /\ result.century = 1800 + 100 * IndexAnyCase(CenturyLetters, IntegerText[1])
     /\ ReachableCenturies = {1800 + 100 * k : k \in 0..17}

C5_Witness ==
  /\ dpc = "returned"
  /\ result.kind = "ok"
  /\ result.century = 3500
  /\ IntegerText[1] = "Z"

\* C5 as stated: the century marker is a capital I..Z, its century is
\* 1800 + 100*(letter - 'I'), and the centuries reachable are exactly
\* 1800, 1900, ..., 3900.
C5_Original ==
  (dpc = "returned" /\ result.century # -1) =>
     /\ InSeq(CenturyLetters, IntegerText[1])
     /\ result.century = 1800 + 100 * IndexIn(CenturyLetters, IntegerText[1])
     /\ ReachableCenturies = {1800 + 100 * k : k \in 0..21}

\* The day field: the fourth and fifth characters of the integer text.
DayField == Slice(IntegerText, 3, 5)

Jd2460000_5 == <<" ", "2", "4", "6", "0", "0", "0", "0", ".", "5", " ">>

\* C10: a text whose trimmed form is numeric is returned as that number by
\* the bypass, without any step of the packed format; and no well-formed
\* packed code is taken by the bypass.
C10_NumericBypass ==
  dpc = "returned" =>
     /\ IsFloat(Trimmed) =>
          /\ result.kind = "ok"
          /\ result.at = "float"
          /\ result.century = -1
          /\ result.value = FloatValue(Trimmed)
     /\ epoch_code = Jd2460000_5 =>
          result.value = [kind |-> "finite", neg |-> FALSE,
                          num |-> 24600005, scale |-> 1]
     /\ WellFormedPacked => (~IsFloat(Trimmed) /\ result.at # "float")

C10_Witness ==
  /\ dpc = "returned"
  /\ epoch_code = Jd2460000_5
  /\ result.at = "float"
  /\ result.value.num = 24600005

---------------------------------------------------------------------------
(* Properties of the solver.                                               *)

\* Where M is 0 and 0 <= e < 1, E is exactly 0 before the first update,
\* after each update and on return, whatever the iteration count.
C9_ZeroStaysZero ==
  kpc \in {"loop", "returned"} =>
    \A k \in 1..Len(kM) :
      (kM[k] = 0 /\ 0 <= ke[k] /\ ke[k] < Unit) => kE[k] = 0

\* C9: with M = 0 and 0 <= e < 1 the solver holds E = 0 throughout and
\* returns it, and no step of the solver changes the array M.
C9_ZeroIsFixedPoint == []C9_ZeroStaysZero /\ [][kM' = kM]_vars

C9_Witness ==
  /\ kpc = "returned"
  /\ max_iter = 10
  /\ kiter = 10
  /\ \E k \in 1..Len(kM) : kM[k] = 0 /\ ke[k] = 900 /\ kE[k] = 0
  /\ \E k \in 1..Len(kM) : kM[k] # 0 /\ kE[k] # kM[k]
====
